---------------------------- MODULE Spec2Model ----------------------------
(***************************************************************************)
(* Model of calcucalc (src/src/lib.rs): Monomial, Polynomial, the          *)
(* simplified() pipeline and the arithmetic built on it.                   *)
(*                                                                         *)
(* Numbers.  The library computes with f64.  The model keeps what f64      *)
(* arithmetic does to the library's results, in a binary floating-point    *)
(* format scaled down to SigBits significand bits and binary exponents     *)
(* 0..MaxExp2 (f64: 53 bits, exponents up to 1023):                        *)
(*   - finite values are the integers m * 2^k, m < 2^SigBits, k<=MaxExp2;  *)
(*   - every sum and product is rounded to the nearest such value, ties to *)
(*     the even significand, and overflows to an infinity;                 *)
(*   - inf - inf and 0 * inf are NaN; NaN is unequal to everything, itself *)
(*     included, and is unordered (partial_cmp gives None).                *)
(* Fractions, subnormals and the sign of zero are left out: -0.0 == 0.0 in *)
(* Rust, and no operation modelled here tells the two zeros apart.         *)
(*                                                                         *)
(* Inputs.  The caller's polynomials have finite coefficients and          *)
(* exponents; infinities and NaN appear only as results of the library's   *)
(* own arithmetic.  Spec applies one call to caller-built operands;        *)
(* SpecSeq feeds results back as operands of further calls.                *)
(***************************************************************************)
EXTENDS Integers, Sequences, FiniteSets, TLC

\* point is the x of value(x) and the start of an interval, endpoint its end
VARIABLES self, other, n, point, endpoint, op, res, steps

vars == <<self, other, n, point, endpoint, op, res, steps>>

-----------------------------------------------------------------------------
(* Bounds of the model *)

\* significand bits of the scaled-down float format
SigBits == 2
\* largest binary exponent of the scaled-down float format
MaxExp2 == 2
\* longest term list the caller builds
MaxLen == 3
\* largest n passed to nth_derivative
MaxN == 3
\* longest chain of calls in SpecSeq
MaxSteps == 3

-----------------------------------------------------------------------------
(* f64 *)

RECURSIVE Pow2(_)
Pow2(k) == IF k = 0 THEN 1 ELSE 2 * Pow2(k - 1)

\* every integer of magnitude <= MaxExactInt is a float (f64: 2^53)
MaxExactInt == Pow2(SigBits)

\* the largest finite float (f64::MAX)
Top == (Pow2(SigBits) - 1) * Pow2(MaxExp2)

\* magnitudes of the finite floats
Mags == { m * Pow2(k) : m \in 0 .. (Pow2(SigBits) - 1), k \in 0 .. MaxExp2 }

F(x) == [cls |-> "fin", v |-> x]
NaN == [cls |-> "nan", v |-> 0]
PosInf == [cls |-> "inf", v |-> 1]
NegInf == [cls |-> "inf", v |-> -1]

Abs(x) == IF x < 0 THEN -x ELSE x
Sgn(x) == IF x < 0 THEN -1 ELSE IF x > 0 THEN 1 ELSE 0

SetMax(S) == CHOOSE x \in S : \A y \in S : y <= x
SetMin(S) == CHOOSE x \in S : \A y \in S : x <= y

\* round-to-nearest, ties-to-even, of a magnitude below the overflow threshold
NearestMag(x) ==
    LET lo == SetMax({m \in Mags : m <= x})
        hi == SetMin({m \in Mags \cup {Pow2(SigBits + MaxExp2)} : m >= x})
    IN  IF lo = hi THEN lo
        ELSE IF x - lo < hi - x THEN lo
        ELSE IF x - lo > hi - x THEN hi
        ELSE IF (lo \div (hi - lo)) % 2 = 0 THEN lo ELSE hi

\* NearestMag, tabulated
RoundTable == [x \in 0 .. Pow2(SigBits + MaxExp2) |-> NearestMag(x)]

RoundMag(x) == RoundTable[x]

\* the float nearest to the exact result x; at or beyond Top + ulp/2 it is an infinity
Rnd(x) ==
    IF 2 * Abs(x) >= 2 * Top + Pow2(MaxExp2)
    THEN (IF x < 0 THEN NegInf ELSE PosInf)
    ELSE F(Sgn(x) * RoundMag(Abs(x)))

\* a + b on f64
FAdd(a, b) ==
    IF a.cls = "nan" \/ b.cls = "nan" THEN NaN
    ELSE IF a.cls = "inf" /\ b.cls = "inf" THEN (IF a.v = b.v THEN a ELSE NaN)
    ELSE IF a.cls = "inf" THEN a
    ELSE IF b.cls = "inf" THEN b
    ELSE Rnd(a.v + b.v)

\* a * b on f64
FMul(a, b) ==
    IF a.cls = "nan" \/ b.cls = "nan" THEN NaN
    ELSE IF a.cls = "inf" \/ b.cls = "inf"
         THEN (IF a.v = 0 \/ b.v = 0 THEN NaN
               ELSE IF Sgn(a.v) * Sgn(b.v) > 0 THEN PosInf ELSE NegInf)
    ELSE Rnd(a.v * b.v)

\* a - b on f64
FSub(a, b) ==
    FAdd(a, IF b.cls = "nan" THEN NaN ELSE [cls |-> b.cls, v |-> -(b.v)])

\* a == b on f64
FEq(a, b) == a.cls # "nan" /\ b.cls # "nan" /\ a = b

\* a.partial_cmp(&b): "none" when either is NaN
PartialCmp(a, b) ==
    IF a.cls = "nan" \/ b.cls = "nan" THEN "none"
    ELSE IF a = b THEN "equal"
    ELSE IF a.cls = "inf" THEN (IF a.v > 0 THEN "greater" ELSE "less")
    ELSE IF b.cls = "inf" THEN (IF b.v > 0 THEN "less" ELSE "greater")
    ELSE IF a.v < b.v THEN "less" ELSE "greater"

\* a.abs() on f64
FAbs(a) == IF a.cls = "nan" THEN NaN ELSE [cls |-> a.cls, v |-> Abs(a.v)]

\* a > b on f64: false when either is NaN
FGt(a, b) == PartialCmp(a, b) = "greater"

-----------------------------------------------------------------------------
(* Monomial *)

Monomial(c, e) == [c |-> c, e |-> e]

\* derive(PartialEq) on Monomial
MonomialEq(a, b) == FEq(a.c, b.c) /\ FEq(a.e, b.e)

NoPanic == "none"
MismatchPanic == "Cannot add monomials with different powers of x."
\* the panic of Option::unwrap() on None
UnwrapPanic == "called Option::unwrap() on a None value"

\* what a call yields: the value it returns, or the panic that ended it
Ok(p) == [panic |-> NoPanic, poly |-> p]
Panicked(msg) == [panic |-> msg, poly |-> <<>>]
\* a call that returns an f64
OkNum(v) == [panic |-> NoPanic, poly |-> <<>>, num |-> v]
\* a call that returns a string
OkStr(t) == [panic |-> NoPanic, poly |-> <<>>, str |-> t]
\* a call that returns a bool
OkBool(b) == [panic |-> NoPanic, poly |-> <<>>, bool |-> b]

\* the exponent check left out: unequal powers are merged silently
add_monomial_unchecked(m1, m2) == Ok(<<Monomial(FAdd(m1.c, m2.c), m1.e)>>)

\* the coefficient of other left out of the sum
add_monomial_keeping_coefficient(m1, m2) ==
    IF ~FEq(m1.e, m2.e)
    THEN Panicked(MismatchPanic)
    ELSE Ok(<<Monomial(m1.c, m1.e)>>)

add_monomial_of_same_power(m1, m2) ==
    IF ~FEq(m1.e, m2.e)
    THEN Panicked(MismatchPanic)
    ELSE Ok(<<Monomial(FAdd(m1.c, m2.c), m1.e)>>)

\* the exponent of other left out of the product
multiply_monomial_keeping_power(m1, m2) == Monomial(FMul(m1.c, m2.c), m1.e)

\* + written for *: the coefficients are added
multiply_monomial_adding_coefficients(m1, m2) ==
    Monomial(FAdd(m1.c, m2.c), FAdd(m1.e, m2.e))

multiply_monomial(m1, m2) == Monomial(FMul(m1.c, m2.c), FAdd(m1.e, m2.e))

\* b to the k, for an integer b and a natural k; b to the 0 is 1
RECURSIVE IntPow(_, _)
IntPow(b, k) == IF k = 0 THEN 1 ELSE b * IntPow(b, k - 1)

\* x.powf(e), for the finite bases and the non-negative integer exponents
\* of the caller's terms
Powf(b, e) == Rnd(IntPow(b.v, e.v))

\* Monomial::value
monomial_value(m, at) == FMul(m.c, Powf(at, m.e))

\* the power left as it is: e, not e - 1
monomial_derivative_keeping_power(m) == Monomial(FMul(m.c, m.e), m.e)

\* + written for *: the coefficient is c + e
monomial_derivative_plus(m) == Monomial(FAdd(m.c, m.e), FSub(m.e, F(1)))

\* the factor e left out: the coefficient stays c
monomial_derivative_keeping_coefficient(m) == Monomial(m.c, FSub(m.e, F(1)))

monomial_derivative(m) == Monomial(FMul(m.c, m.e), FSub(m.e, F(1)))

-----------------------------------------------------------------------------
(* Polynomial *)

\* order ignored: every term of one is a term of the other
PolynomialEq_unordered(p, q) ==
    /\ \A i \in 1 .. Len(p) : \E j \in 1 .. Len(q) : MonomialEq(p[i], q[j])
    /\ \A j \in 1 .. Len(q) : \E i \in 1 .. Len(p) : MonomialEq(p[i], q[j])

\* derive(PartialEq) on Polynomial(Vec<Monomial>)
PolynomialEq(p, q) ==
    /\ Len(p) = Len(q)
    /\ \A i \in 1 .. Len(p) : MonomialEq(p[i], q[i])

\* the exponents not compared: the first accumulator entry always matches
FirstMatch_any(acc, e, i) == IF i > Len(acc) THEN 0 ELSE i

\* the inner loop of simplify_by_combining_alike_powers: index of the first
\* accumulator entry whose exponent equals e, or 0
RECURSIVE FirstMatch(_, _, _)
FirstMatch(acc, e, i) ==
    IF i > Len(acc) THEN 0
    ELSE IF FEq(acc[i].e, e) THEN i
    ELSE FirstMatch(acc, e, i + 1)

\* the matching entry overwritten by the term, not added to it
CombineStep_replacing(acc, element, first_element_transferred) ==
    IF ~first_element_transferred THEN Ok(Append(acc, element))
    ELSE LET i == FirstMatch(acc, element.e, 1)
         IN  IF i = 0 THEN Ok(Append(acc, element))
             ELSE Ok([acc EXCEPT ![i] = element])

\* found_match left unset: a merged term is appended as well
CombineStep_match_unset(acc, element, first_element_transferred) ==
    IF ~first_element_transferred THEN Ok(Append(acc, element))
    ELSE LET i == FirstMatch(acc, element.e, 1)
         IN  IF i = 0 THEN Ok(Append(acc, element))
             ELSE LET r == add_monomial_of_same_power(acc[i], element)
                  IN  IF r.panic # NoPanic THEN r
                      ELSE Ok(Append([acc EXCEPT ![i] = r.poly[1]], element))

\* one iteration of the outer loop of simplify_by_combining_alike_powers
CombineStep(acc, element, first_element_transferred) ==
    IF ~first_element_transferred THEN Ok(Append(acc, element))
    ELSE LET i == FirstMatch(acc, element.e, 1)
         IN  IF i = 0 THEN Ok(Append(acc, element))
             ELSE LET r == add_monomial_of_same_power(acc[i], element)
                  IN  IF r.panic # NoPanic THEN r
                      ELSE Ok([acc EXCEPT ![i] = r.poly[1]])

RECURSIVE CombineFrom(_, _, _)
CombineFrom(elements, i, acc) ==
    IF i > Len(elements) THEN Ok(acc)
    ELSE LET r == CombineStep(acc, elements[i], i > 1)
         IN  IF r.panic # NoPanic THEN r
             ELSE CombineFrom(elements, i + 1, r.poly)

simplify_by_combining_alike_powers(p) == CombineFrom(p, 1, <<>>)

\* the filter left out: zero coefficients stay
eliminate_zero_coefficients_none(p) == Ok(p)

\* > written for !=: negative coefficients are dropped as well
eliminate_zero_coefficients_positive(p) ==
    Ok(SelectSeq(p, LAMBDA element : FGt(element.c, F(0))))

eliminate_zero_coefficients(p) ==
    Ok(SelectSeq(p, LAMBDA element : ~FEq(element.c, F(0))))

\* the comparator handed to sort_by: b.e.partial_cmp(&a.e)
ExponentCmp(a, b) == PartialCmp(b.e, a.e)

\* x moves left past the entries it compares "equal" to as well: the sort
\* is not stable
RECURSIVE InsertTail_past_equals(_, _)
InsertTail_past_equals(s, x) ==
    IF Len(s) = 0 THEN <<x>>
    ELSE IF ExponentCmp(x, s[Len(s)]) \in {"less", "equal"}
         THEN Append(InsertTail_past_equals(SubSeq(s, 1, Len(s) - 1), x),
                     s[Len(s)])
         ELSE Append(s, x)

\* stable insertion of x into the sorted prefix s: x moves left past every
\* entry it compares "less" than
RECURSIVE InsertTail(_, _)
InsertTail(s, x) ==
    IF Len(s) = 0 THEN <<x>>
    ELSE IF ExponentCmp(x, s[Len(s)]) = "less"
         THEN Append(InsertTail(SubSeq(s, 1, Len(s) - 1), x), s[Len(s)])
         ELSE Append(s, x)

RECURSIVE StableSort(_, _, _)
StableSort(p, i, sorted) ==
    IF i > Len(p) THEN sorted
    ELSE StableSort(p, i + 1, InsertTail(sorted, p[i]))

\* the sort left out: terms stay in first-occurrence order
sort_by_exponent_unsorted(p) == Ok(p)

\* a slice of fewer than two elements is never compared; otherwise every
\* element is compared at least once, and a None comparison is unwrapped
sort_by_exponent(p) ==
    IF Len(p) >= 2 /\ \E i \in 1 .. Len(p) : p[i].e.cls = "nan"
    THEN Panicked(UnwrapPanic)
    ELSE Ok(StableSort(p, 1, <<>>))

\* = written for +=: the value of the last term alone
value_overwriting(p, at) ==
    IF p = <<>> THEN F(0) ELSE monomial_value(p[Len(p)], at)

\* the loop of Polynomial::value from element i on, value being acc so far
RECURSIVE ValueFrom(_, _, _, _)
ValueFrom(p, at, i, acc) ==
    IF i > Len(p) THEN acc
    ELSE ValueFrom(p, at, i + 1, FAdd(acc, monomial_value(p[i], at)))

\* Polynomial::value
value(p, at) == ValueFrom(p, at, 1, F(0))

\* how value(from) compares with value(to)
Trend(p, from, to) ==
    LET cmp == PartialCmp(value(p, from), value(p, to))
    IN  IF cmp = "less" THEN "increasing"
        ELSE IF cmp = "greater" THEN "decreasing"
        ELSE IF cmp = "equal" THEN "constant"
        ELSE "undefined"

\* the arguments taken as passed, not swapped when start > end
trend_over_interval_unswapped(p, start, end) == OkStr(Trend(p, start, end))

\* start and end are swapped first when start > end
trend_over_interval(p, start, end) ==
    IF FGt(start, end) THEN OkStr(Trend(p, end, start))
    ELSE OkStr(Trend(p, start, end))

\* zero coefficients dropped before, not after, like terms are combined
simplified_eliminating_first(p) ==
    LET kept == eliminate_zero_coefficients(p)
        combined == simplify_by_combining_alike_powers(kept.poly)
    IN  IF combined.panic # NoPanic THEN combined
        ELSE sort_by_exponent(combined.poly)

\* the three stages in sequence; a stage that panics ends the call
simplified(p) ==
    LET combined == simplify_by_combining_alike_powers(p)
    IN  IF combined.panic # NoPanic THEN combined
        ELSE LET kept == eliminate_zero_coefficients(combined.poly)
             IN  IF kept.panic # NoPanic THEN kept
                 ELSE sort_by_exponent(kept.poly)

\* elements extended with self again instead of other
add_polynomial_self_twice(p, q) == simplified(p \o p)

\* the closing simplified() left out
add_polynomial_unsimplified(p, q) == Ok(p \o q)

add_polynomial(p, q) == simplified(p \o q)

\* the cross product, element1 outer and element2 inner
RECURSIVE CrossFrom(_, _, _, _)
CrossFrom(p, q, i, j) ==
    IF i > Len(p) THEN <<>>
    ELSE IF j > Len(q) THEN CrossFrom(p, q, i + 1, 1)
    ELSE <<multiply_monomial(p[i], q[j])>> \o CrossFrom(p, q, i, j + 1)

\* the closing simplified() left out
multiply_polynomial_unsimplified(p, q) == Ok(CrossFrom(p, q, 1, 1))

multiply_polynomial(p, q) == simplified(CrossFrom(p, q, 1, 1))

\* the closing simplified() left out
derivative_unsimplified(p) ==
    Ok([i \in 1 .. Len(p) |-> monomial_derivative(p[i])])

derivative(p) ==
    simplified([i \in 1 .. Len(p) |-> monomial_derivative(p[i])])

\* the loop body run once whatever n is
nth_derivative_once(p, k) == IF k = 0 THEN Ok(p) ELSE derivative(p)

RECURSIVE nth_derivative(_, _)
nth_derivative(p, k) ==
    IF k = 0 THEN Ok(p)
    ELSE LET new_polynomial == nth_derivative(p, k - 1)
         IN  IF new_polynomial.panic # NoPanic THEN new_polynomial
             ELSE derivative(new_polynomial.poly)

\* let tolerance = 1e-10. The scaled-down format holds no fractions: its
\* smallest step stands for the tolerance, so that two floats differ by less
\* than (0), exactly (1) or more than (2, 3, ...) the tolerance
Tolerance == F(1)

\* abs() left out: only a - b above the tolerance is refused
ExceedsTolerance_signed(a, b) == FGt(FSub(a, b), Tolerance)

\* >= written for >: a difference equal to the tolerance is refused
ExceedsTolerance_inclusive(a, b) ==
    PartialCmp(FAbs(FSub(a, b)), Tolerance) \in {"greater", "equal"}

\* (a - b).abs() > tolerance
ExceedsTolerance(a, b) == FGt(FAbs(FSub(a, b)), Tolerance)

\* other compared as passed, not simplified
is_equal_within_tolerance_to_raw_other(p, q) ==
    LET simplified_self == simplified(p)
    IN  IF simplified_self.panic # NoPanic THEN simplified_self
        ELSE IF Len(simplified_self.poly) # Len(q) THEN OkBool(FALSE)
        ELSE OkBool(~\E i \in 1 .. Len(q) :
                \/ ExceedsTolerance(simplified_self.poly[i].c, q[i].c)
                \/ ExceedsTolerance(simplified_self.poly[i].e, q[i].e))

\* the loop returns false at the first pair of terms that exceeds the
\* tolerance, true when there is none
is_equal_within_tolerance_to(p, q) ==
    LET simplified_self == simplified(p)
        simplified_other == simplified(q)
    IN  IF simplified_self.panic # NoPanic THEN simplified_self
        ELSE IF simplified_other.panic # NoPanic THEN simplified_other
        ELSE IF Len(simplified_self.poly) # Len(simplified_other.poly)
             THEN OkBool(FALSE)
        ELSE OkBool(~\E i \in 1 .. Len(simplified_self.poly) :
                LET element1 == simplified_self.poly[i]
                    element2 == simplified_other.poly[i]
                IN  \/ ExceedsTolerance(element1.c, element2.c)
                    \/ ExceedsTolerance(element1.e, element2.e))

-----------------------------------------------------------------------------
(* The caller's operands *)

\* coefficients: a cancelling pair, zero, and the largest exactly counted
\* integer, where adding 1 is rounded away
Coefs == {F(-1), F(0), F(1), F(MaxExactInt)}

\* a constant term and the largest finite coefficient, whose sums and
\* products overflow, are among them
Terms ==
    {Monomial(c, e) : c \in Coefs, e \in {F(1), F(2)}}
        \cup {Monomial(F(1), F(0)), Monomial(F(Top), F(2))}

\* the term lists of at most len terms over T
Polys(T, len) == UNION {[1 .. k -> T] : k \in 0 .. len}

\* the polynomials the caller builds
UnaryPolys == Polys(Terms, MaxLen)

\* operands of the two-operand calls
BinTerms == {Monomial(c, F(1)) : c \in Coefs} \cup {Monomial(F(1), F(2))}

BinPolys == Polys(BinTerms, MaxLen - 1)

\* operands of Monomial::add_monomial_of_same_power: the caller's values and
\* the values the combine step can hold in its accumulator
MonoCoefs == {F(-1), F(0), F(1), F(Top), PosInf, NegInf, NaN}

MonoExps == {F(-Top), F(-1), F(0), F(1), F(Top), PosInf, NegInf, NaN}

Monomials == {Monomial(c, e) : c \in MonoCoefs, e \in MonoExps}

-----------------------------------------------------------------------------
(* One call on caller-built operands *)

\* points of evaluation: signs that alternate, zero, and a base whose powers
\* grow
Points == {F(-1), F(0), F(2)}

\* terms whose values at the interval's ends are ordered either way, equal,
\* or overflow to infinities of both signs
TrendTerms ==
    {Monomial(F(1), F(2)), Monomial(F(-1), F(1)),
     Monomial(F(MaxExactInt), F(1)), Monomial(F(1), F(0)),
     Monomial(F(Top), F(2))}

TrendPolys == Polys(TrendTerms, MaxLen - 1)

\* ends of intervals
Ends == {F(-Top), F(0), F(2)}

\* terms of negative powers, two of them cancelling, and a term of a
\* positive power
NegativePowerTerms ==
    {Monomial(F(1), F(-1)), Monomial(F(-1), F(-1)), Monomial(F(1), F(-2)),
     Monomial(F(1), F(1))}

NegativePowerPolys == Polys(NegativePowerTerms, MaxLen - 1)

Init ==
    /\ self \in UnaryPolys \cup NegativePowerPolys
    /\ other = <<>>
    /\ n = 0
    /\ point = F(0)
    /\ endpoint = F(0)
    /\ op = "start"
    /\ res = Ok(<<>>)
    /\ steps = 0

\* the result written over the receiver's term list
Call1_in_place(name, r) ==
    /\ op = "start"
    /\ op' = name
    /\ res' = r
    /\ self' = r.poly
    /\ UNCHANGED <<other, n, point, endpoint, steps>>

\* op and result of a call self.f()
Call1(name, r) ==
    /\ op = "start"
    /\ op' = name
    /\ res' = r
    /\ UNCHANGED <<self, other, n, point, endpoint, steps>>

\* op, argument and result of a call self.f(q)
Call2(name, q, r) ==
    /\ op = "start"
    /\ op' = name
    /\ other' = q
    /\ res' = r
    /\ UNCHANGED <<self, n, point, endpoint, steps>>

\* m1.add_monomial_of_same_power(m2), on two monomials rather than on self
AddMonomialOfSamePower ==
    /\ op = "start"
    /\ self = <<>>
    /\ \E m1 \in Monomials, m2 \in Monomials :
        /\ op' = "add_monomial_of_same_power"
        /\ self' = <<m1>>
        /\ other' = <<m2>>
        /\ res' = add_monomial_of_same_power(m1, m2)
    /\ UNCHANGED <<n, point, endpoint, steps>>

Simplified == Call1("simplified", simplified(self))

SimplifyByCombiningAlikePowers ==
    Call1("simplify_by_combining_alike_powers",
          simplify_by_combining_alike_powers(self))

EliminateZeroCoefficients ==
    Call1("eliminate_zero_coefficients", eliminate_zero_coefficients(self))

SortByExponent == Call1("sort_by_exponent", sort_by_exponent(self))

AddPolynomial ==
    /\ self \in BinPolys
    /\ \E q \in BinPolys : Call2("add_polynomial", q, add_polynomial(self, q))

MultiplyPolynomial ==
    /\ self \in BinPolys
    /\ \E q \in BinPolys :
        Call2("multiply_polynomial", q, multiply_polynomial(self, q))

Derivative == Call1("derivative", derivative(self))

NthDerivative ==
    \E k \in 0 .. MaxN :
        /\ op = "start"
        /\ op' = "nth_derivative"
        /\ n' = k
        /\ res' = nth_derivative(self, k)
        /\ UNCHANGED <<self, other, point, endpoint, steps>>

\* self.is_equal_within_tolerance_to(q): q is a clone of self, or any
\* second operand
IsEqualWithinToleranceTo ==
    \E q \in {self} \cup (IF self \in BinPolys THEN BinPolys ELSE {}) :
        Call2("is_equal_within_tolerance_to", q,
              is_equal_within_tolerance_to(self, q))

\* self.value(at), for the non-negative exponents Powf is modelled for
Value ==
    \E at \in Points :
        /\ op = "start"
        /\ \A i \in 1 .. Len(self) : self[i].e.v >= 0
        /\ op' = "value"
        /\ point' = at
        /\ res' = OkNum(value(self, at))
        /\ UNCHANGED <<self, other, n, endpoint, steps>>

\* self.trend_over_interval(start, end)
TrendOverInterval ==
    \E start \in Ends, end \in Ends :
        /\ op = "start"
        /\ self \in TrendPolys
        /\ op' = "trend_over_interval"
        /\ point' = start
        /\ endpoint' = end
        /\ res' = trend_over_interval(self, start, end)
        /\ UNCHANGED <<self, other, n, steps>>

\* self == q: q is a clone of self, its canonical form, or any second operand
Eq ==
    \E q \in {self, simplified(self).poly}
              \cup (IF self \in BinPolys THEN BinPolys ELSE {}) :
        Call2("eq", q, OkBool(PolynomialEq(self, q)))

Next ==
    \/ AddMonomialOfSamePower
    \/ Simplified
    \/ SimplifyByCombiningAlikePowers
    \/ EliminateZeroCoefficients
    \/ SortByExponent
    \/ AddPolynomial
    \/ MultiplyPolynomial
    \/ Derivative
    \/ NthDerivative
    \/ IsEqualWithinToleranceTo
    \/ Eq
    \/ Value
    \/ TrendOverInterval

Spec == Init /\ [][Next]_vars

-----------------------------------------------------------------------------
(* Chains of calls: each call's result is the next call's receiver *)

SeqTerms ==
    {Monomial(F(1), F(Top)), Monomial(F(1), F(-Top)), Monomial(F(1), F(0))}

\* the caller's starting polynomials
SeqPolys == Polys(SeqTerms, 2)

\* the caller's other operands; the receiver itself is one more
SeqOthers == Polys(SeqTerms, 1)

SeqInit ==
    /\ self = <<>>
    /\ other = <<>>
    /\ n = 0
    /\ point = F(0)
    /\ endpoint = F(0)
    /\ op = "start"
    /\ res \in {Ok(p) : p \in SeqPolys}
    /\ steps = 0

\* the previous call returned a polynomial the chain goes on with
CanChain ==
    /\ res.panic = NoPanic
    /\ Len(res.poly) <= MaxLen
    /\ steps < MaxSteps

SeqCall(name, q, r) ==
    /\ CanChain
    /\ op' = name
    /\ self' = res.poly
    /\ other' = q
    /\ res' = r
    /\ steps' = steps + 1
    /\ UNCHANGED <<n, point, endpoint>>

SeqAddPolynomial ==
    \E q \in SeqOthers \cup {res.poly} :
        SeqCall("add_polynomial", q, add_polynomial(res.poly, q))

SeqMultiplyPolynomial ==
    \E q \in SeqOthers \cup {res.poly} :
        SeqCall("multiply_polynomial", q, multiply_polynomial(res.poly, q))

SeqDerivative == SeqCall("derivative", <<>>, derivative(res.poly))

SeqNext ==
    \/ SeqAddPolynomial
    \/ SeqMultiplyPolynomial
    \/ SeqDerivative

SpecSeq == SeqInit /\ [][SeqNext]_vars

-----------------------------------------------------------------------------
(* Vocabulary of the properties *)

Returned == res.panic = NoPanic

\* canonical form: pairwise distinct exponents, no coefficient equal to 0,
\* exponents strictly descending
IsCanonical(p) ==
    /\ \A i \in 1 .. Len(p) : \A j \in 1 .. Len(p) :
            i # j => ~FEq(p[i].e, p[j].e)
    /\ \A i \in 1 .. Len(p) : ~FEq(p[i].c, F(0))
    /\ \A i \in 1 .. Len(p) - 1 : PartialCmp(p[i].e, p[i + 1].e) = "greater"

HasLikeTerms(p) ==
    \E i \in 1 .. Len(p) : \E j \in 1 .. Len(p) : i # j /\ FEq(p[i].e, p[j].e)

HasZeroCoefficient(p) == \E i \in 1 .. Len(p) : FEq(p[i].c, F(0))

IsDescending(p) ==
    \A i \in 1 .. Len(p) - 1 : PartialCmp(p[i].e, p[i + 1].e) = "greater"

\* the term lists that reorder p
Reorderings(p) ==
    {[i \in 1 .. Len(p) |-> p[f[i]]] : f \in Permutations(1 .. Len(p))}

\* sum of |c| over the terms of p from index i on whose exponent is e
RECURSIVE LikeAbsSum(_, _, _)
LikeAbsSum(p, e, i) ==
    IF i > Len(p) THEN 0
    ELSE (IF p[i].e = e THEN Abs(p[i].c.v) ELSE 0) + LikeAbsSum(p, e, i + 1)

\* sum of |c| over the terms of p from index i on
RECURSIVE AbsSum(_, _)
AbsSum(p, i) ==
    IF i > Len(p) THEN 0 ELSE Abs(p[i].c.v) + AbsSum(p, i + 1)

IsFinite(p) ==
    \A i \in 1 .. Len(p) : p[i].c.cls = "fin" /\ p[i].e.cls = "fin"

\* finite terms whose like coefficients are integers small enough that every
\* partial sum of them, in any order, is computed without rounding
ExactSums(p) ==
    /\ IsFinite(p)
    /\ \A i \in 1 .. Len(p) : LikeAbsSum(p, p[i].e, 1) <= MaxExactInt

\* finite terms whose pairwise coefficient products, and every partial sum of
\* them, are computed without rounding
ExactProducts(p, q) ==
    /\ IsFinite(p)
    /\ IsFinite(q)
    /\ AbsSum(p, 1) * AbsSum(q, 1) <= MaxExactInt

-----------------------------------------------------------------------------
(* C1 *)

\* C1: for every caller-built term list (duplicate exponents, zero
\* coefficients, any order), simplified() returns a polynomial in canonical
\* form: no two terms share an exponent, no coefficient is 0, and the
\* exponents are strictly descending.
C1_SimplifiedIsCanonical ==
    op = "simplified" => Returned /\ IsCanonical(res.poly)

\* an unsorted list with like terms and a zero coefficient, simplified to a
\* non-empty polynomial
C1_Witness ==
    /\ op = "simplified"
    /\ Returned
    /\ HasLikeTerms(self)
    /\ HasZeroCoefficient(self)
    /\ ~IsDescending(self)
    /\ Len(res.poly) >= 1
    /\ IsCanonical(res.poly)

-----------------------------------------------------------------------------
(* C2 *)

\* C2: simplified is idempotent: simplifying the result of simplified()
\* again returns a polynomial == to it.
C2_SimplifiedIdempotent ==
    op = "simplified" =>
        /\ Returned
        /\ simplified(res.poly).panic = NoPanic
        /\ PolynomialEq(simplified(res.poly).poly, res.poly)

\* a list that simplified() changed, with two terms left
C2_Witness ==
    /\ op = "simplified"
    /\ Returned
    /\ ~PolynomialEq(self, res.poly)
    /\ Len(res.poly) >= 2
    /\ PolynomialEq(simplified(res.poly).poly, res.poly)

-----------------------------------------------------------------------------
(* C3 *)

\* C3: in every chain of add_polynomial, multiply_polynomial and derivative
\* calls that starts from the caller's polynomials, every call returns a
\* canonical polynomial.
C3_ChainStaysCanonical ==
    op # "start" => Returned /\ IsCanonical(res.poly)

\* what does hold along a chain: every polynomial a call returns is canonical
ChainReturnsCanonical ==
    op # "start" /\ Returned => IsCanonical(res.poly)

-----------------------------------------------------------------------------
(* C4 *)

\* C4 as stated: for every n >= 0, n = 0 included, nth_derivative(n) returns
\* a canonical polynomial.
C4_NthDerivativeCanonicalEveryN ==
    op = "nth_derivative" => Returned /\ IsCanonical(res.poly)

\* C4, amended: for every n >= 1, nth_derivative(n) returns a canonical
\* polynomial; nth_derivative(0) returns the term list of self as it is.
C4_NthDerivativeCanonical ==
    op = "nth_derivative" =>
        /\ Returned
        /\ n >= 1 => IsCanonical(res.poly)
        /\ n = 0 => res.poly = self

\* a non-canonical list differentiated twice into a non-empty polynomial
C4_Witness ==
    /\ op = "nth_derivative"
    /\ n >= 2
    /\ HasLikeTerms(self)
    /\ ~IsDescending(self)
    /\ Returned
    /\ Len(res.poly) >= 1
    /\ IsCanonical(res.poly)

-----------------------------------------------------------------------------
(* C5 *)

\* every reordering q of self simplifies to a polynomial == to the result
SameForEveryReordering ==
    \A q \in Reorderings(self) :
        /\ simplified(q).panic = NoPanic
        /\ PolynomialEq(simplified(q).poly, res.poly)

\* C5 as stated: for every polynomial p and every permutation q of its term
\* list, q.simplified() == p.simplified().
C5_SimplifiedOrderInsensitiveAlways ==
    op = "simplified" => Returned /\ SameForEveryReordering

\* C5, amended: when the coefficients are integers whose absolute values,
\* summed over the terms of each exponent, stay within the integers f64
\* counts exactly, every permutation q of p's term list has
\* q.simplified() == p.simplified().
C5_SimplifiedOrderInsensitive ==
    op = "simplified" /\ ExactSums(self) =>
        Returned /\ SameForEveryReordering

\* three terms, two of them alike, out of order, exact sums
C5_Witness ==
    /\ op = "simplified"
    /\ ExactSums(self)
    /\ Len(self) = 3
    /\ HasLikeTerms(self)
    /\ ~IsDescending(self)
    /\ Len(res.poly) = 2
    /\ SameForEveryReordering

-----------------------------------------------------------------------------
(* C6 *)

\* other.add_polynomial(self) and the result at hand simplify to == polynomials
AddCommutes ==
    LET ba == add_polynomial(other, self)
    IN  /\ ba.panic = NoPanic
        /\ simplified(ba.poly).panic = NoPanic
        /\ simplified(res.poly).panic = NoPanic
        /\ PolynomialEq(simplified(res.poly).poly, simplified(ba.poly).poly)

\* C6 as stated: for all polynomials a and b,
\* a.add_polynomial(b).simplified() == b.add_polynomial(a).simplified().
C6_AddCommutativeAlways ==
    op = "add_polynomial" => Returned /\ AddCommutes

\* C6, amended: when the coefficients of a and b are integers whose absolute
\* values, summed over the terms of each exponent in a and b together, stay
\* within the integers f64 counts exactly,
\* a.add_polynomial(b).simplified() == b.add_polynomial(a).simplified().
C6_AddCommutative ==
    op = "add_polynomial" /\ ExactSums(self \o other) =>
        Returned /\ AddCommutes

\* two different operands with a like term across them
C6_Witness ==
    /\ op = "add_polynomial"
    /\ ExactSums(self \o other)
    /\ Len(self) = 2
    /\ Len(other) >= 1
    /\ ~PolynomialEq(self, other)
    /\ \E i \in 1 .. Len(self) : \E j \in 1 .. Len(other) :
            FEq(self[i].e, other[j].e)
    /\ Len(res.poly) = 2
    /\ AddCommutes

-----------------------------------------------------------------------------
(* C7 *)

\* other.multiply_polynomial(self) and the result at hand simplify to ==
\* polynomials
MultiplyCommutes ==
    LET ba == multiply_polynomial(other, self)
    IN  /\ ba.panic = NoPanic
        /\ simplified(ba.poly).panic = NoPanic
        /\ simplified(res.poly).panic = NoPanic
        /\ PolynomialEq(simplified(res.poly).poly, simplified(ba.poly).poly)

\* C7 as stated: for all polynomials a and b,
\* a.multiply_polynomial(b).simplified() == b.multiply_polynomial(a).simplified().
C7_MultiplyCommutativeAlways ==
    op = "multiply_polynomial" => Returned /\ MultiplyCommutes

\* C7, amended: when the coefficients of a and b are integers and the sum of
\* |c| over a times the sum of |c| over b stays within the integers f64
\* counts exactly, a.multiply_polynomial(b).simplified() ==
\* b.multiply_polynomial(a).simplified().
C7_MultiplyCommutative ==
    op = "multiply_polynomial" /\ ExactProducts(self, other) =>
        Returned /\ MultiplyCommutes

\* two different two-term operands whose cross product has like terms
C7_Witness ==
    /\ op = "multiply_polynomial"
    /\ ExactProducts(self, other)
    /\ Len(self) = 2
    /\ Len(other) = 2
    /\ ~PolynomialEq(self, other)
    /\ IsCanonical(self)
    /\ IsCanonical(other)
    /\ Len(res.poly) = 2
    /\ MultiplyCommutes

-----------------------------------------------------------------------------
(* C8 *)

\* C8: add_monomial_of_same_power on two monomials of unequal exponent (a
\* negative, a zero or a large one included) panics with "Cannot add
\* monomials with different powers of x." and returns no monomial.
C8_DifferentPowersPanic ==
    op = "add_monomial_of_same_power" /\ ~FEq(self[1].e, other[1].e) =>
        res.panic = MismatchPanic /\ res.poly = <<>>

\* the largest and the most negative exponent, refused
C8_Witness ==
    /\ op = "add_monomial_of_same_power"
    /\ self[1].e = F(Top)
    /\ other[1].e = F(-Top)
    /\ res.panic = MismatchPanic

-----------------------------------------------------------------------------
(* C9 *)

\* C9: add_monomial_of_same_power on two monomials of equal exponent returns
\* the monomial with coefficient self.c + other.c and the exponent of self.
C9_SamePowerAdds ==
    op = "add_monomial_of_same_power" /\ FEq(self[1].e, other[1].e) =>
        /\ Returned
        /\ Len(res.poly) = 1
        /\ res.poly[1].c = FAdd(self[1].c, other[1].c)
        /\ res.poly[1].e = self[1].e
        /\ (self[1].c = F(1) /\ other[1].c = F(1) => res.poly[1].c = F(2))

\* 1*x^e + 1*x^e = 2*x^e at the most negative exponent
C9_Witness ==
    /\ op = "add_monomial_of_same_power"
    /\ self[1] = Monomial(F(1), F(-Top))
    /\ other[1] = Monomial(F(1), F(-Top))
    /\ Returned
    /\ res.poly = <<Monomial(F(2), F(-Top))>>

-----------------------------------------------------------------------------
(* C10 *)

\* C10: add_polynomial, multiply_polynomial, derivative, nth_derivative and
\* simplified never panic, whatever the coefficients and exponents of their
\* operands.
C10_NeverPanics == res.panic = NoPanic

-----------------------------------------------------------------------------
(* C11 *)

\* finite integer terms for which differentiation is exact: the exponents
\* and e - 1 are counted exactly, and for each exponent e the sum of |c| over
\* its terms, and |e| times that sum, stay within the exactly counted integers
ExactDerivative(p) ==
    /\ ExactSums(p)
    /\ \A i \in 1 .. Len(p) :
        /\ Abs(p[i].e.v) < MaxExactInt
        /\ Abs(p[i].e.v) * LikeAbsSum(p, p[i].e, 1) <= MaxExactInt

\* self.derivative().add_polynomial(other.derivative()) is == to the
\* derivative of the sum at hand
DerivativeOfSumIsSumOfDerivatives ==
    LET da == derivative(self)
        db == derivative(other)
        lhs == derivative(res.poly)
    IN  /\ da.panic = NoPanic
        /\ db.panic = NoPanic
        /\ lhs.panic = NoPanic
        /\ add_polynomial(da.poly, db.poly).panic = NoPanic
        /\ PolynomialEq(lhs.poly, add_polynomial(da.poly, db.poly).poly)

\* C11 as stated: for all polynomials a and b,
\* a.add_polynomial(b).derivative() == a.derivative().add_polynomial(b.derivative()).
C11_DerivativeLinearAlways ==
    op = "add_polynomial" => Returned /\ DerivativeOfSumIsSumOfDerivatives

\* C11, amended: when the terms of a and b are integers for which the sums
\* of like coefficients in a and b together, and their products with the
\* exponent, stay within the integers f64 counts exactly,
\* a.add_polynomial(b).derivative() == a.derivative().add_polynomial(b.derivative()).
C11_DerivativeLinear ==
    op = "add_polynomial" /\ ExactDerivative(self \o other) =>
        Returned /\ DerivativeOfSumIsSumOfDerivatives

\* like terms across two different operands, a non-empty derivative
C11_Witness ==
    /\ op = "add_polynomial"
    /\ ExactDerivative(self \o other)
    /\ Len(self) = 2
    /\ Len(other) = 2
    /\ ~PolynomialEq(self, other)
    /\ \E i \in 1 .. Len(self) : \E j \in 1 .. Len(other) :
            FEq(self[i].e, other[j].e)
    /\ Len(derivative(res.poly).poly) = 2
    /\ DerivativeOfSumIsSumOfDerivatives

-----------------------------------------------------------------------------
(* C12 *)

\* C12: tolerance-equality is reflexive: for every polynomial p, canonical
\* or not, p.is_equal_within_tolerance_to(p) returns true.
C12_ToleranceEqualityReflexive ==
    op = "is_equal_within_tolerance_to" /\ other = self =>
        Returned /\ res.bool = TRUE

\* a polynomial that is not canonical, compared with itself
C12_Witness ==
    /\ op = "is_equal_within_tolerance_to"
    /\ other = self
    /\ Len(self) = MaxLen
    /\ ~IsCanonical(self)
    /\ Len(simplified(self).poly) = 2
    /\ res.bool = TRUE

-----------------------------------------------------------------------------
(* C13 *)

\* a and b differ by at most the tolerance: as numbers, not by the rounded
\* f64 difference; an infinity differs from itself by nothing
WithinTolerance(a, b) ==
    /\ a.cls # "nan"
    /\ b.cls # "nan"
    /\ \/ a = b
       \/ /\ a.cls = "fin"
          /\ b.cls = "fin"
          /\ Abs(a.v - b.v) <= Tolerance.v

\* same number of terms, and at every position coefficients and exponents
\* within the tolerance of each other
TermwiseWithinTolerance(p, q) ==
    /\ Len(p) = Len(q)
    /\ \A i \in 1 .. Len(p) :
        /\ WithinTolerance(p[i].c, q[i].c)
        /\ WithinTolerance(p[i].e, q[i].e)

-----------------------------------------------------------------------------
(* C14 *)

\* same length and the same (c, e) at every position
SameTermsInOrder(p, q) ==
    /\ Len(p) = Len(q)
    /\ \A i \in 1 .. Len(p) : p[i].c = q[i].c /\ p[i].e = q[i].e

\* no term of p occurs twice
DistinctTerms(p) ==
    \A i \in 1 .. Len(p) : \A j \in 1 .. Len(p) : p[i] = p[j] => i = j

\* p and q simplify to the same canonical polynomial
SameCanonicalForm(p, q) ==
    /\ simplified(p).panic = NoPanic
    /\ simplified(q).panic = NoPanic
    /\ SameTermsInOrder(simplified(p).poly, simplified(q).poly)

\* C14: Polynomial == is structural, element-wise and order-sensitive: two
\* polynomials are == exactly when they have the same length and equal
\* (c, e) at every position; hence a non-identity reordering of distinct
\* terms, or a polynomial that splits a like term into several, is not ==
\* to the original even though both simplify to the same canonical polynomial.
C14_EqIsStructural ==
    op = "eq" =>
        /\ Returned
        /\ res.bool = SameTermsInOrder(self, other)
        /\ (other \in Reorderings(self) /\ DistinctTerms(self) /\ other # self
              => res.bool = FALSE)
        /\ (Len(self) > Len(other) /\ SameCanonicalForm(self, other)
              => res.bool = FALSE)

\* two distinct terms of different exponents swapped: not ==, although the
\* canonical forms agree
C14_Witness ==
    /\ op = "eq"
    /\ Len(self) = 2
    /\ ~FEq(self[1].e, self[2].e)
    /\ other = <<self[2], self[1]>>
    /\ SameCanonicalForm(self, other)
    /\ Len(simplified(self).poly) = 2
    /\ res.bool = FALSE

-----------------------------------------------------------------------------
(* C15 *)

\* p.simplify_by_combining_alike_powers().eliminate_zero_coefficients()
\*  .sort_by_exponent(), each stage called on what the one before returned
ThreeStages(p) ==
    LET combined == simplify_by_combining_alike_powers(p).poly
        kept == eliminate_zero_coefficients(combined).poly
    IN  sort_by_exponent(kept)

\* C15: for every polynomial p, p.simplified() equals
\* p.simplify_by_combining_alike_powers().eliminate_zero_coefficients()
\* .sort_by_exponent(): combine, then drop zeros, then sort.
C15_SimplifiedIsThreeStages ==
    op = "simplified" =>
        /\ Returned
        /\ simplify_by_combining_alike_powers(self).panic = NoPanic
        /\ ThreeStages(self).panic = NoPanic
        /\ PolynomialEq(res.poly, ThreeStages(self).poly)

\* like terms, not in descending order, that cancel into a zero coefficient,
\* which is then dropped
C15_Witness ==
    /\ op = "simplified"
    /\ Len(self) = MaxLen
    /\ HasLikeTerms(self)
    /\ ~HasZeroCoefficient(self)
    /\ HasZeroCoefficient(simplify_by_combining_alike_powers(self).poly)
    /\ ~IsDescending(self)
    /\ Len(res.poly) = 1
    /\ PolynomialEq(res.poly, ThreeStages(self).poly)

-----------------------------------------------------------------------------
(* C16 *)

\* the transforming operations of Polynomial
TransformingOps ==
    {"simplified", "simplify_by_combining_alike_powers",
     "eliminate_zero_coefficients", "sort_by_exponent", "add_polynomial",
     "multiply_polynomial", "derivative", "nth_derivative",
     "is_equal_within_tolerance_to"}

\* the result of the binary operation named, from operands p and q
BinaryResult(name, p, q) ==
    IF name = "add_polynomial" THEN add_polynomial(p, q)
    ELSE IF name = "multiply_polynomial" THEN multiply_polynomial(p, q)
    ELSE is_equal_within_tolerance_to(p, q)

-----------------------------------------------------------------------------
(* C17 *)

\* the sum, as an integer, of p[i].c * q[j].c over the pairs (i, j) from
\* pair number m on (row by row) with p[i].e + q[j].e = k
RECURSIVE ProductCoefFrom(_, _, _, _)
ProductCoefFrom(p, q, k, m) ==
    IF m > Len(p) * Len(q) THEN 0
    ELSE LET i == ((m - 1) \div Len(q)) + 1
             j == ((m - 1) % Len(q)) + 1
         IN  (IF p[i].e.v + q[j].e.v = k THEN p[i].c.v * q[j].c.v ELSE 0)
                 + ProductCoefFrom(p, q, k, m + 1)

ProductCoef(p, q, k) == ProductCoefFrom(p, q, k, 1)

\* the exponents p[i].e + q[j].e
ProductExps(p, q) ==
    {p[i].e.v + q[j].e.v : i \in 1 .. Len(p), j \in 1 .. Len(q)}

\* r has, for every exponent k of a pair, the one term (ProductCoef, k) when
\* ProductCoef is not 0 and no term of exponent k when it is, and no term of
\* any other exponent
IsProduct(r, p, q) ==
    /\ \A k \in ProductExps(p, q) :
          LET at == {i \in 1 .. Len(r) : r[i].e = F(k)}
          IN  IF ProductCoef(p, q, k) = 0 THEN at = {}
              ELSE /\ Cardinality(at) = 1
                   /\ \A i \in at : r[i].c = F(ProductCoef(p, q, k))
    /\ \A i \in 1 .. Len(r) :
          r[i].e.cls = "fin" /\ r[i].e.v \in ProductExps(p, q)

\* integer exponents whose pairwise sums are counted exactly
ExactExponentSums(p, q) ==
    \A i \in 1 .. Len(p) : \A j \in 1 .. Len(q) :
        Abs(p[i].e.v) + Abs(q[j].e.v) <= MaxExactInt

\* C17 as stated: for all polynomials a and b and every exponent k, the
\* coefficient of the term with exponent k in a.multiply_polynomial(b) is the
\* sum of a_i.c * b_j.c over the pairs with a_i.e + b_j.e == k, and there is
\* no term with exponent k when that sum is 0; the product with the empty
\* polynomial is empty.
C17_MultiplyIsProductAlways ==
    op = "multiply_polynomial" =>
        /\ Returned
        /\ IsProduct(res.poly, self, other)
        /\ (self = <<>> \/ other = <<>> => res.poly = <<>>)

\* C17, amended: the same, when the terms of a and b are integers, the sum
\* of |c| over a times the sum of |c| over b stays within the integers f64
\* counts exactly, and so do the sums of the exponents.
C17_MultiplyIsProduct ==
    op = "multiply_polynomial" /\ ExactProducts(self, other)
            /\ ExactExponentSums(self, other) =>
        /\ Returned
        /\ IsProduct(res.poly, self, other)
        /\ (self = <<>> \/ other = <<>> => res.poly = <<>>)

\* two two-term operands without zero coefficients: the two pairs with a
\* common exponent sum cancel, the other two pairs give a term each
C17_Witness ==
    /\ op = "multiply_polynomial"
    /\ ExactProducts(self, other)
    /\ ExactExponentSums(self, other)
    /\ Len(self) = 2
    /\ Len(other) = 2
    /\ ~HasZeroCoefficient(self)
    /\ ~HasZeroCoefficient(other)
    /\ \E k \in ProductExps(self, other) : ProductCoef(self, other, k) = 0
    /\ Len(res.poly) = 2
    /\ IsProduct(res.poly, self, other)

-----------------------------------------------------------------------------
(* C18 *)

\* the sum, as an integer, of the coefficients of the terms of p from index
\* i on whose exponent is k
RECURSIVE SumCoefFrom(_, _, _)
SumCoefFrom(p, k, i) ==
    IF i > Len(p) THEN 0
    ELSE (IF p[i].e.v = k THEN p[i].c.v ELSE 0) + SumCoefFrom(p, k, i + 1)

SumCoef(p, k) == SumCoefFrom(p, k, 1)

\* the exponents of p
Exps(p) == {p[i].e.v : i \in 1 .. Len(p)}

\* r has, for every exponent k of p, the one term (SumCoef, k) when SumCoef
\* is not 0 and no term of exponent k when it is, and no term of any other
\* exponent
IsSum(r, p) ==
    /\ \A k \in Exps(p) :
          LET at == {i \in 1 .. Len(r) : r[i].e = F(k)}
          IN  IF SumCoef(p, k) = 0 THEN at = {}
              ELSE /\ Cardinality(at) = 1
                   /\ \A i \in at : r[i].c = F(SumCoef(p, k))
    /\ \A i \in 1 .. Len(r) : r[i].e.cls = "fin" /\ r[i].e.v \in Exps(p)

\* the result at hand is the simplification of self's terms followed by
\* other's, and holds the sums of their like coefficients
AddIsSimplifiedConcatenation ==
    /\ Returned
    /\ simplified(self \o other).panic = NoPanic
    /\ PolynomialEq(res.poly, simplified(self \o other).poly)
    /\ IsSum(res.poly, self \o other)

-----------------------------------------------------------------------------
(* C19 *)

\* the list with each term (c, e) of p replaced by (c * e, e - 1)
TermwiseDerived(p) ==
    [i \in 1 .. Len(p) |-> Monomial(FMul(p[i].c, p[i].e), FSub(p[i].e, F(1)))]

IsConstantTerm(m) == FEq(m.e, F(0))

\* C19: for every polynomial p, p.derivative() equals the simplification of
\* the list obtained by replacing each term (c, e) of p by (c*e, e-1); every
\* constant term (e = 0) becomes the zero-coefficient term (0, -1) and does
\* not appear in the result, and the derivative of a polynomial made only of
\* constant terms is the empty polynomial.
C19_DerivativeIsSimplifiedTermwise ==
    op = "derivative" =>
        /\ Returned
        /\ simplified(TermwiseDerived(self)).panic = NoPanic
        /\ PolynomialEq(res.poly, simplified(TermwiseDerived(self)).poly)
        /\ \A i \in 1 .. Len(self) :
              IsConstantTerm(self[i]) =>
                  /\ TermwiseDerived(self)[i] = Monomial(F(0), F(-1))
                  /\ \A j \in 1 .. Len(res.poly) : ~FEq(res.poly[j].e, F(-1))
        /\ ((\A i \in 1 .. Len(self) : IsConstantTerm(self[i]))
              => res.poly = <<>>)

\* a constant term among terms of two other exponents: it alone vanishes
C19_Witness ==
    /\ op = "derivative"
    /\ Len(self) = MaxLen
    /\ \E i \in 1 .. Len(self) : IsConstantTerm(self[i])
    /\ Len(res.poly) = 2
    /\ PolynomialEq(res.poly, simplified(TermwiseDerived(self)).poly)
    /\ \A j \in 1 .. Len(res.poly) : ~FEq(res.poly[j].e, F(-1))

-----------------------------------------------------------------------------
(* C20 *)

\* the sum, as an integer, of c * b^e over the terms of p from index i on
RECURSIVE SumOfTermsFrom(_, _, _)
SumOfTermsFrom(p, b, i) ==
    IF i > Len(p) THEN 0
    ELSE p[i].c.v * IntPow(b, p[i].e.v) + SumOfTermsFrom(p, b, i + 1)

SumOfTerms(p, b) == SumOfTermsFrom(p, b, 1)

\* the sum of |c * b^e| over the terms of p from index i on
RECURSIVE AbsSumOfTermsFrom(_, _, _)
AbsSumOfTermsFrom(p, b, i) ==
    IF i > Len(p) THEN 0
    ELSE Abs(p[i].c.v * IntPow(b, p[i].e.v)) + AbsSumOfTermsFrom(p, b, i + 1)

\* integer coefficients, non-negative integer exponents and an integer point
IntegerTerms(p, at) ==
    /\ IsFinite(p)
    /\ at.cls = "fin"
    /\ \A i \in 1 .. Len(p) : p[i].e.v >= 0

\* the same, small enough that the sums of like coefficients and the sum of
\* the terms at the point are computed without rounding
ExactValue(p, at) ==
    /\ IntegerTerms(p, at)
    /\ ExactSums(p)
    /\ AbsSumOfTermsFrom(p, at.v, 1) <= MaxExactInt

\* the value at hand is the sum of c * x^e over the terms of self, 0 for the
\* empty polynomial, and == to the value of self.simplified() at the point
ValueIsSumOfTerms ==
    /\ Returned
    /\ res.num = F(SumOfTerms(self, point.v))
    /\ (self = <<>> => res.num = F(0))
    /\ simplified(self).panic = NoPanic
    /\ FEq(value(simplified(self).poly, point), res.num)

-----------------------------------------------------------------------------
(* C21 *)

\* the smaller and the larger end of the interval at hand
LowEnd == IF point.v <= endpoint.v THEN point ELSE endpoint
HighEnd == IF point.v <= endpoint.v THEN endpoint ELSE point

\* neither value of self at the ends of the interval is NaN
ValuesComparable ==
    value(self, LowEnd).cls # "nan" /\ value(self, HighEnd).cls # "nan"

\* the string for how value(LowEnd) compares with value(HighEnd)
TrendOfValues ==
    LET lo == value(self, LowEnd)
        hi == value(self, HighEnd)
    IN  IF PartialCmp(lo, hi) = "less" THEN "increasing"
        ELSE IF PartialCmp(lo, hi) = "greater" THEN "decreasing"
        ELSE "constant"

\* C21 as stated: p.trend_over_interval(start, end) returns the same string
\* as p.trend_over_interval(end, start), and that string is "increasing",
\* "decreasing" or "constant" according to whether p.value(min(start,end)) is
\* less than, greater than or equal to p.value(max(start,end)).
C21_TrendSymmetricAlways ==
    op = "trend_over_interval" =>
        /\ Returned
        /\ res.str = trend_over_interval(self, endpoint, point).str
        /\ res.str = TrendOfValues
        /\ (res.str = "constant"
              => FEq(value(self, LowEnd), value(self, HighEnd)))

\* C21, amended: the same, when neither value is NaN; when one is, the
\* string is "undefined", for either order of the arguments.
C21_TrendSymmetric ==
    op = "trend_over_interval" =>
        /\ Returned
        /\ res.str = trend_over_interval(self, endpoint, point).str
        /\ (ValuesComparable => res.str = TrendOfValues)
        /\ (~ValuesComparable => res.str = "undefined")

\* the interval passed with start > end, and the value at the smaller end
\* below the value at the larger
C21_Witness ==
    /\ op = "trend_over_interval"
    /\ point.v > endpoint.v
    /\ Len(self) = 2
    /\ ValuesComparable
    /\ value(self, LowEnd).cls = "fin"
    /\ value(self, HighEnd).cls = "fin"
    /\ res.str = "increasing"
    /\ trend_over_interval(self, endpoint, point).str = "increasing"

-----------------------------------------------------------------------------
(* C22 *)

\* the operations that run the combine step
CombiningOps ==
    {"simplify_by_combining_alike_powers", "simplified", "add_polynomial",
     "multiply_polynomial", "derivative", "nth_derivative"}

\* C22: the combine step never triggers the exponent-mismatch failure: no
\* execution of simplify_by_combining_alike_powers, nor of simplified,
\* add_polynomial, multiply_polynomial or derivative, ends in the panic of
\* add_monomial_of_same_power, whose internal calls are all made with two
\* monomials of equal exponent.
C22_CombineNeverMismatches ==
    op \in CombiningOps => res.panic # MismatchPanic

\* a term merged into an accumulator entry that is not the first one
C22_Witness ==
    /\ op = "simplify_by_combining_alike_powers"
    /\ Len(self) = MaxLen
    /\ ~FEq(self[1].e, self[2].e)
    /\ FEq(self[2].e, self[3].e)
    /\ Returned
    /\ Len(res.poly) = 2
    /\ res.poly[2] = Monomial(FAdd(self[2].c, self[3].c), self[2].e)

-----------------------------------------------------------------------------
(* C23 *)

\* simplified_elements after the outer loop has processed the first k terms
\* of p: the loop runs left to right, so this is what it returns on them
AccumulatorAfter(p, k) == CombineFrom(SubSeq(p, 1, k), 1, <<>>).poly

DistinctExponents(acc) ==
    \A i \in 1 .. Len(acc) : \A j \in 1 .. Len(acc) :
        FEq(acc[i].e, acc[j].e) => i = j

\* element was added to exactly one entry of before, the others kept
UpdatesOneEntry(before, after, element) ==
    \E i \in 1 .. Len(before) :
        /\ FEq(before[i].e, element.e)
        /\ after = [before EXCEPT
                      ![i] = Monomial(FAdd(before[i].c, element.c), before[i].e)]

\* C23: accumulator invariant of simplify_by_combining_alike_powers: after
\* each input term the accumulator holds pairwise distinct exponents, so the
\* next term matches at most one entry; each term either updates exactly one
\* entry (its coefficient increased by the term's, its exponent kept) or is
\* appended; the accumulator never shrinks and is never longer than the
\* number of terms processed.
C23_AccumulatorInvariant ==
    op = "simplify_by_combining_alike_powers" =>
        /\ Returned
        /\ res.poly = AccumulatorAfter(self, Len(self))
        /\ \A k \in 1 .. Len(self) :
              LET before == AccumulatorAfter(self, k - 1)
                  after == AccumulatorAfter(self, k)
                  matches == {i \in 1 .. Len(before) :
                                 FEq(before[i].e, self[k].e)}
              IN  /\ DistinctExponents(after)
                  /\ Cardinality(matches) <= 1
                  /\ IF matches = {} THEN after = Append(before, self[k])
                     ELSE UpdatesOneEntry(before, after, self[k])
                  /\ Len(after) >= Len(before)
                  /\ Len(after) <= k

\* the second term is appended, the third updates the first entry
C23_Witness ==
    /\ op = "simplify_by_combining_alike_powers"
    /\ Len(self) = MaxLen
    /\ ~FEq(self[1].e, self[2].e)
    /\ FEq(self[1].e, self[3].e)
    /\ ~FEq(self[3].c, F(0))
    /\ AccumulatorAfter(self, 2) = <<self[1], self[2]>>
    /\ UpdatesOneEntry(AccumulatorAfter(self, 2), res.poly, self[3])
    /\ Len(res.poly) = 2

-----------------------------------------------------------------------------
(* C24 *)

\* the distinct exponents of p from index i on, after those of acc, each in
\* the place of its first occurrence
RECURSIVE FirstOccurrencesFrom(_, _, _)
FirstOccurrencesFrom(p, i, acc) ==
    IF i > Len(p) THEN acc
    ELSE FirstOccurrencesFrom(p, i + 1,
            IF \E j \in 1 .. Len(acc) : acc[j] = p[i].e THEN acc
            ELSE Append(acc, p[i].e))

FirstOccurrences(p) == FirstOccurrencesFrom(p, 1, <<>>)

\* the f64 sum, taken in input order from index i on, of the coefficients of
\* the terms of p with exponent e, added to acc
RECURSIVE LikeSumFrom(_, _, _, _)
LikeSumFrom(p, e, i, acc) ==
    IF i > Len(p) THEN acc
    ELSE LikeSumFrom(p, e, i + 1,
            IF p[i].e = e THEN FAdd(acc, p[i].c) ELSE acc)

\* one term per distinct exponent of p, in first-occurrence order, with the
\* sum of the like coefficients as an integer
CombinedExactly(p) ==
    [j \in 1 .. Len(FirstOccurrences(p)) |->
        Monomial(F(SumCoef(p, FirstOccurrences(p)[j].v)),
                 FirstOccurrences(p)[j])]

\* the same, with the sum of the like coefficients taken in f64
CombinedInOrder(p) ==
    [j \in 1 .. Len(FirstOccurrences(p)) |->
        Monomial(LikeSumFrom(p, FirstOccurrences(p)[j], 1, F(0)),
                 FirstOccurrences(p)[j])]

\* C24 as stated: the output of simplify_by_combining_alike_powers lists each
\* distinct exponent of the input exactly once, in the order of its first
\* occurrence (not sorted), with coefficient equal to the sum of the
\* coefficients of all input terms of that exponent; terms whose summed
\* coefficient is 0 are still present.
C24_CombineOutputAlways ==
    op = "simplify_by_combining_alike_powers" =>
        Returned /\ res.poly = CombinedExactly(self)

\* C24, amended: the same, the coefficient being the f64 sum, taken in input
\* order, of the coefficients of all input terms of that exponent.
C24_CombineOutput ==
    op = "simplify_by_combining_alike_powers" =>
        Returned /\ res.poly = CombinedInOrder(self)

\* exponents first met in ascending order, one of them with like terms that
\* cancel: the zero-coefficient term is there, and nothing is sorted
C24_Witness ==
    /\ op = "simplify_by_combining_alike_powers"
    /\ Len(self) = MaxLen
    /\ ~HasZeroCoefficient(self)
    /\ Len(res.poly) = 2
    /\ FEq(res.poly[1].c, F(0))
    /\ PartialCmp(res.poly[1].e, res.poly[2].e) = "less"
    /\ res.poly = CombinedInOrder(self)

-----------------------------------------------------------------------------
(* C25 *)

\* the positions of the terms of p whose coefficient is not 0
NonZeroPositions(p) == {i \in 1 .. Len(p) : p[i].c # F(0)}

\* the j-th smallest element of the set S of numbers
NthOf(S, j) == CHOOSE i \in S : Cardinality({m \in S : m <= i}) = j

\* C25: eliminate_zero_coefficients returns exactly the subsequence of the
\* input's terms whose coefficient is not 0, in their original relative
\* order and with coefficients and exponents unchanged; nothing is merged
\* or reordered.
C25_EliminateKeepsNonZeroInOrder ==
    op = "eliminate_zero_coefficients" =>
        /\ Returned
        /\ Len(res.poly) = Cardinality(NonZeroPositions(self))
        /\ \A j \in 1 .. Len(res.poly) :
              res.poly[j] = self[NthOf(NonZeroPositions(self), j)]

\* a zero-coefficient term between two like terms, the later of a larger
\* coefficient: both stay, unmerged and in place
C25_Witness ==
    /\ op = "eliminate_zero_coefficients"
    /\ Len(self) = MaxLen
    /\ FEq(self[2].c, F(0))
    /\ FEq(self[1].e, self[3].e)
    /\ FGt(self[3].c, self[1].c)
    /\ res.poly = <<self[1], self[3]>>

-----------------------------------------------------------------------------
(* C26 *)

\* f places the terms of p in r: r[i] is p[f[i]]
Places(f, p, r) == \A i \in 1 .. Len(p) : r[i] = p[f[i]]

\* f keeps the input order of the terms of p with equal exponents
KeepsOrderOfEquals(f, p) ==
    \A i \in 1 .. Len(p) : \A j \in 1 .. Len(p) :
        i < j /\ FEq(p[f[i]].e, p[f[j]].e) => f[i] < f[j]

NonIncreasing(r) ==
    \A i \in 1 .. Len(r) - 1 : PartialCmp(r[i].e, r[i + 1].e) # "less"

\* C26: sort_by_exponent returns a permutation of the input terms (same
\* multiset, same length, nothing combined or dropped) ordered by
\* non-increasing exponent, and it is stable: terms with equal exponents keep
\* their relative input order.
C26_SortIsStablePermutation ==
    op = "sort_by_exponent" =>
        /\ Returned
        /\ Len(res.poly) = Len(self)
        /\ NonIncreasing(res.poly)
        /\ \E f \in Permutations(1 .. Len(self)) :
              Places(f, self, res.poly) /\ KeepsOrderOfEquals(f, self)

\* two like terms of different coefficients, the larger coefficient first,
\* before a term of a larger exponent: that term moves to the front and the
\* like terms keep their order
C26_Witness ==
    /\ op = "sort_by_exponent"
    /\ Len(self) = MaxLen
    /\ FEq(self[1].e, self[2].e)
    /\ FGt(self[1].c, self[2].c)
    /\ PartialCmp(self[3].e, self[1].e) = "greater"
    /\ res.poly = <<self[3], self[1], self[2]>>

-----------------------------------------------------------------------------
(* C27 *)

\* p.derivative().derivative()...: derivative called k times in sequence
RECURSIVE DerivativeTimes(_, _)
DerivativeTimes(p, k) ==
    IF k = 0 THEN p ELSE derivative(DerivativeTimes(p, k - 1)).poly

\* C27: for every polynomial p and n >= 1, p.nth_derivative(n) equals
\* derivative applied n times in sequence, every intermediate result after
\* the first application is canonical, and the number of terms never
\* increases from one intermediate result to the next.
C27_NthDerivativeIsSequence ==
    op = "nth_derivative" /\ n >= 1 =>
        /\ Returned
        /\ res.poly = DerivativeTimes(self, n)
        /\ \A k \in 1 .. n :
              /\ derivative(DerivativeTimes(self, k - 1)).panic = NoPanic
              /\ IsCanonical(DerivativeTimes(self, k))
              /\ Len(DerivativeTimes(self, k))
                    <= Len(DerivativeTimes(self, k - 1))

\* three derivatives of a polynomial that is not canonical: the number of
\* terms goes down at the first and again later
C27_Witness ==
    /\ op = "nth_derivative"
    /\ n = 3
    /\ ~IsCanonical(self)
    /\ Len(DerivativeTimes(self, 1)) = 2
    /\ Len(DerivativeTimes(self, 2)) = 1
    /\ Len(DerivativeTimes(self, 1)) < Len(self)
    /\ res.poly = DerivativeTimes(self, 3)
    /\ res.poly = <<>>

-----------------------------------------------------------------------------
(* C28 *)

\* every exponent of p is a non-negative integer
OrdinaryPolynomial(p) ==
    \A i \in 1 .. Len(p) : p[i].e.cls = "fin" /\ p[i].e.v >= 0

\* the least d that no exponent of an ordinary polynomial p is greater than
Degree(p) == SetMax({0} \cup {p[i].e.v : i \in 1 .. Len(p)})

RECURSIVE Factorial(_)
Factorial(k) == IF k = 0 THEN 1 ELSE k * Factorial(k - 1)

\* no coefficient met while p is differentiated overflows: they are all at
\* most the sum of |c| over p, times Degree(p)!
DerivativesStayFinite(p) ==
    /\ IsFinite(p)
    /\ AbsSum(p, 1) * Factorial(Degree(p)) <= Top

HasNegativePower(p) ==
    \E i \in 1 .. Len(p) : ~FEq(p[i].c, F(0)) /\ PartialCmp(p[i].e, F(0)) = "less"

\* integer exponents that stay exactly counted while they are lowered k times
ExponentsStayExact(p, k) ==
    \A i \in 1 .. Len(p) : Abs(p[i].e.v) + k <= MaxExactInt

\* once an intermediate result is empty, the n-th derivative at hand is empty
EmptyStaysEmpty ==
    \A k \in 0 .. n : DerivativeTimes(self, k) = <<>> => res.poly = <<>>

-----------------------------------------------------------------------------
(* C29 *)

\* third operands: the empty polynomial and the one-term polynomials
ThirdPolys == {<<>>} \cup {<<t>> : t \in BinTerms}

\* a.multiply_polynomial(b.add_polynomial(c)) ==
\* a.multiply_polynomial(b).add_polynomial(a.multiply_polynomial(c)), for
\* the product a.multiply_polynomial(b) at hand
DistributesOver(c) ==
    LET bc == add_polynomial(other, c)
        lhs == multiply_polynomial(self, bc.poly)
        ac == multiply_polynomial(self, c)
        rhs == add_polynomial(res.poly, ac.poly)
    IN  /\ bc.panic = NoPanic
        /\ lhs.panic = NoPanic
        /\ ac.panic = NoPanic
        /\ rhs.panic = NoPanic
        /\ PolynomialEq(lhs.poly, rhs.poly)

\* integer terms for which every product of a with b and with c, and every
\* sum of them, is computed without rounding
ExactDistribution(a, b, c) ==
    /\ ExactProducts(a, b \o c)
    /\ ExactExponentSums(a, b \o c)

-----------------------------------------------------------------------------
(* C30 *)

\* C30: tolerance-equality is symmetric and invariant under
\* canonicalization: for all polynomials p and q,
\* p.is_equal_within_tolerance_to(q) == q.is_equal_within_tolerance_to(p)
\* == p.simplified().is_equal_within_tolerance_to(q.simplified()), and
\* p.simplified() == q.simplified() implies p.is_equal_within_tolerance_to(q).
C30_ToleranceEqualitySymmetric ==
    op = "is_equal_within_tolerance_to" =>
        /\ Returned
        /\ is_equal_within_tolerance_to(other, self) = OkBool(res.bool)
        /\ is_equal_within_tolerance_to(simplified(self).poly,
                                        simplified(other).poly)
              = OkBool(res.bool)
        /\ (PolynomialEq(simplified(self).poly, simplified(other).poly)
              => res.bool = TRUE)

\* two polynomials, neither canonical, whose canonical forms differ in a
\* coefficient by more than the tolerance: false in both directions
C30_Witness ==
    /\ op = "is_equal_within_tolerance_to"
    /\ Len(self) = 2
    /\ Len(other) = 2
    /\ ~IsCanonical(self)
    /\ ~IsCanonical(other)
    /\ Len(simplified(self).poly) = 1
    /\ Len(simplified(other).poly) = 1
    /\ FGt(simplified(other).poly[1].c, simplified(self).poly[1].c)
    /\ res.bool = FALSE
    /\ is_equal_within_tolerance_to(other, self) = OkBool(FALSE)

=============================================================================
